---- MODULE Spec2Model ----
(***************************************************************************)
(* Model of crates/sw5e/src/proficency.rs: the Proficency enum, its        *)
(* derived Default / PartialEq / Ord, and its four step functions          *)
(* increase, increase_wrapping, decrease and decrease_wrapping.            *)
(*                                                                         *)
(* The functions are pure, so the state machine is a caller that holds one *)
(* Proficency value and applies the functions to it, recording the         *)
(* argument and the return value of the last call.                         *)
(***************************************************************************)
EXTENDS Naturals, Sequences, FiniteSets

VARIABLES cur, op, arg, ret, rhs, start, chain, n, seen

vars == <<cur, op, arg, ret, rhs, start, chain, n, seen>>

\* Longest run of one wrapping function the caller counts before it starts
\* a new run.
MaxRun == 8

----------------------------------------------------------------------------
\* The enum

\* The declaration with its last variant left out.
Variants_short ==
    <<"Untrained", "Trained", "Proficent", "Expertise", "Mastery",
      "HighMastery">>

\* The variants of the enum, in declaration order.
Variants ==
    <<"Untrained", "Trained", "Proficent", "Expertise", "Mastery",
      "HighMastery", "GrandMastery">>

\* The values of the type.
Proficency == {Variants[i] : i \in 1..Len(Variants)}

\* Option<Proficency>: None is a value outside the enum, Some(v) carries v.
None == "None"

Some(v) == v

\* The discriminant of a variant: its position in the declaration, from 0.
discriminant(v) == (CHOOSE i \in 1..Len(Variants) : Variants[i] = v) - 1

\* #[derive(PartialEq, Eq)]: two values are equal when they are the same
\* variant.
eq(a, b) == discriminant(a) = discriminant(b)

\* cmp with the comparison of the discriminants turned around.
cmp_reversed(a, b) ==
    IF discriminant(a) > discriminant(b) THEN "Less"
    ELSE IF discriminant(a) = discriminant(b) THEN "Equal"
    ELSE "Greater"

\* #[derive(PartialOrd, Ord)]: fieldless variants compare by discriminant.
cmp(a, b) ==
    IF discriminant(a) < discriminant(b) THEN "Less"
    ELSE IF discriminant(a) = discriminant(b) THEN "Equal"
    ELSE "Greater"

\* The #[default] attribute put on the second variant.
Proficency_default_second == "Trained"

\* #[derive(Default)] with #[default] on Untrained.
Proficency_default == "Untrained"

----------------------------------------------------------------------------
\* The step functions, arm by arm

\* increase with the Trained arm skipping a level.
increase_skip(self) ==
    CASE self = "Untrained"    -> Some("Trained")
      [] self = "Trained"      -> Some("Expertise")
      [] self = "Proficent"    -> Some("Expertise")
      [] self = "Expertise"    -> Some("Mastery")
      [] self = "Mastery"      -> Some("HighMastery")
      [] self = "HighMastery"  -> Some("GrandMastery")
      [] self = "GrandMastery" -> None

\* increase with the Expertise arm returning its own level.
increase_stuck(self) ==
    CASE self = "Untrained"    -> Some("Trained")
      [] self = "Trained"      -> Some("Proficent")
      [] self = "Proficent"    -> Some("Expertise")
      [] self = "Expertise"    -> Some("Expertise")
      [] self = "Mastery"      -> Some("HighMastery")
      [] self = "HighMastery"  -> Some("GrandMastery")
      [] self = "GrandMastery" -> None

increase(self) ==
    CASE self = "Untrained"    -> Some("Trained")
      [] self = "Trained"      -> Some("Proficent")
      [] self = "Proficent"    -> Some("Expertise")
      [] self = "Expertise"    -> Some("Mastery")
      [] self = "Mastery"      -> Some("HighMastery")
      [] self = "HighMastery"  -> Some("GrandMastery")
      [] self = "GrandMastery" -> None

\* increase_wrapping clamping at the top instead of wrapping.
increase_wrapping_clamp(self) ==
    CASE self = "Untrained"    -> "Trained"
      [] self = "Trained"      -> "Proficent"
      [] self = "Proficent"    -> "Expertise"
      [] self = "Expertise"    -> "Mastery"
      [] self = "Mastery"      -> "HighMastery"
      [] self = "HighMastery"  -> "GrandMastery"
      [] self = "GrandMastery" -> "GrandMastery"

\* increase_wrapping wrapping one level early.
increase_wrapping_early(self) ==
    CASE self = "Untrained"    -> "Trained"
      [] self = "Trained"      -> "Proficent"
      [] self = "Proficent"    -> "Expertise"
      [] self = "Expertise"    -> "Mastery"
      [] self = "Mastery"      -> "HighMastery"
      [] self = "HighMastery"  -> "Untrained"
      [] self = "GrandMastery" -> "Untrained"

increase_wrapping(self) ==
    CASE self = "Untrained"    -> "Trained"
      [] self = "Trained"      -> "Proficent"
      [] self = "Proficent"    -> "Expertise"
      [] self = "Expertise"    -> "Mastery"
      [] self = "Mastery"      -> "HighMastery"
      [] self = "HighMastery"  -> "GrandMastery"
      [] self = "GrandMastery" -> "Untrained"

\* decrease clamping at the bottom instead of returning None.
decrease_clamp(self) ==
    CASE self = "Untrained"    -> Some("Untrained")
      [] self = "Trained"      -> Some("Untrained")
      [] self = "Proficent"    -> Some("Trained")
      [] self = "Expertise"    -> Some("Proficent")
      [] self = "Mastery"      -> Some("Expertise")
      [] self = "HighMastery"  -> Some("Mastery")
      [] self = "GrandMastery" -> Some("HighMastery")

decrease(self) ==
    CASE self = "Untrained"    -> None
      [] self = "Trained"      -> Some("Untrained")
      [] self = "Proficent"    -> Some("Trained")
      [] self = "Expertise"    -> Some("Proficent")
      [] self = "Mastery"      -> Some("Expertise")
      [] self = "HighMastery"  -> Some("Mastery")
      [] self = "GrandMastery" -> Some("HighMastery")

\* decrease_wrapping clamping at the bottom instead of wrapping.
decrease_wrapping_clamp(self) ==
    CASE self = "Untrained"    -> "Untrained"
      [] self = "Trained"      -> "Untrained"
      [] self = "Proficent"    -> "Trained"
      [] self = "Expertise"    -> "Proficent"
      [] self = "Mastery"      -> "Expertise"
      [] self = "HighMastery"  -> "Mastery"
      [] self = "GrandMastery" -> "HighMastery"

\* decrease_wrapping wrapping to the level below the top.
decrease_wrapping_low(self) ==
    CASE self = "Untrained"    -> "HighMastery"
      [] self = "Trained"      -> "Untrained"
      [] self = "Proficent"    -> "Trained"
      [] self = "Expertise"    -> "Proficent"
      [] self = "Mastery"      -> "Expertise"
      [] self = "HighMastery"  -> "Mastery"
      [] self = "GrandMastery" -> "HighMastery"

decrease_wrapping(self) ==
    CASE self = "Untrained"    -> "GrandMastery"
      [] self = "Trained"      -> "Untrained"
      [] self = "Proficent"    -> "Trained"
      [] self = "Expertise"    -> "Proficent"
      [] self = "Mastery"      -> "Expertise"
      [] self = "HighMastery"  -> "Mastery"
      [] self = "GrandMastery" -> "HighMastery"

----------------------------------------------------------------------------
\* The caller

\* A value is constructed by naming a variant.
Init ==
    /\ cur \in Proficency
    /\ op = "new"
    /\ arg = cur
    /\ ret = cur
    /\ rhs = cur
    /\ start = cur
    /\ chain = "none"
    /\ n = 0
    /\ seen = {}

\* Proficency::default()
Default ==
    /\ cur' = Proficency_default
    /\ op' = "default"
    /\ arg' = cur'
    /\ ret' = cur'
    /\ rhs' = cur'
    /\ start' = cur'
    /\ chain' = "none"
    /\ n' = 0
    /\ UNCHANGED seen

\* cur.increase(); the caller keeps its value when the result is None.
Increase ==
    /\ op' = "increase"
    /\ arg' = cur
    /\ ret' = increase(cur)
    /\ cur' = IF ret' = None THEN cur ELSE ret'
    /\ rhs' = cur'
    /\ start' = cur'
    /\ chain' = "none"
    /\ n' = 0
    /\ seen' = seen \cup {cur} \cup ({ret'} \ {None})

\* cur.decrease(); the caller keeps its value when the result is None.
Decrease ==
    /\ op' = "decrease"
    /\ arg' = cur
    /\ ret' = decrease(cur)
    /\ cur' = IF ret' = None THEN cur ELSE ret'
    /\ rhs' = cur'
    /\ start' = cur'
    /\ chain' = "none"
    /\ n' = 0
    /\ seen' = seen \cup {cur} \cup ({ret'} \ {None})

\* cur = cur.increase_wrapping(), counted as one more step of a run of
\* increase_wrapping calls, or as the first step of a new run.
IncreaseWrapping ==
    /\ op' = "increase_wrapping"
    /\ arg' = cur
    /\ ret' = increase_wrapping(cur)
    /\ cur' = ret'
    /\ rhs' = cur'
    /\ IF chain = "increase_wrapping" /\ n < MaxRun
         THEN /\ n' = n + 1
              /\ start' = start
         ELSE /\ n' = 1
              /\ start' = cur
    /\ chain' = "increase_wrapping"
    /\ seen' = seen \cup {cur} \cup ({ret'} \ {None})

\* cur = cur.decrease_wrapping(), counted likewise.
DecreaseWrapping ==
    /\ op' = "decrease_wrapping"
    /\ arg' = cur
    /\ ret' = decrease_wrapping(cur)
    /\ cur' = ret'
    /\ rhs' = cur'
    /\ IF chain = "decrease_wrapping" /\ n < MaxRun
         THEN /\ n' = n + 1
              /\ start' = start
         ELSE /\ n' = 1
              /\ start' = cur
    /\ chain' = "decrease_wrapping"
    /\ seen' = seen \cup {cur} \cup ({ret'} \ {None})

\* cur.cmp(&b) for a second value b.
Compare ==
    \E b \in Proficency :
        /\ op' = "cmp"
        /\ arg' = cur
        /\ rhs' = b
        /\ ret' = cmp(cur, b)
        /\ start' = cur
        /\ chain' = "none"
        /\ n' = 0
        /\ UNCHANGED <<cur, seen>>

Next ==
    \/ Default
    \/ Increase
    \/ Decrease
    \/ IncreaseWrapping
    \/ DecreaseWrapping
    \/ Compare

Spec == Init /\ [][Next]_vars

----------------------------------------------------------------------------
\* The rank table of the specification (section 3), rows 0 to 6.  The row
\* the table spells Proficient is the variant the code spells Proficent.
rank(v) ==
    CASE v = "Untrained"    -> 0
      [] v = "Trained"      -> 1
      [] v = "Proficent"    -> 2
      [] v = "Expertise"    -> 3
      [] v = "Mastery"      -> 4
      [] v = "HighMastery"  -> 5
      [] v = "GrandMastery" -> 6

\* The values whose rank is r.
AtRank(r) == {v \in Proficency : rank(v) = r}

\* C1: increase(v) is present and one rank above v for every v other than
\* GrandMastery; increase(GrandMastery) is None, and GrandMastery is the
\* only argument for which increase returns None.
C1_Increase ==
    op = "increase" =>
        /\ arg # "GrandMastery" => ret # None /\ ret \in AtRank(rank(arg) + 1)
        /\ arg = "GrandMastery" => ret = None
        /\ ret = None => arg = "GrandMastery"

C1_Witness == op = "increase" /\ arg = "HighMastery" /\ ret = "GrandMastery"

\* C2: decrease(v) is present and one rank below v for every v other than
\* Untrained; decrease(Untrained) is None.  Over increase and decrease,
\* (increase, GrandMastery) and (decrease, Untrained) are the only calls
\* returning None, and at those two calls the result is None and not a
\* value of the enum.
C2_Decrease ==
    /\ op = "decrease" =>
        /\ arg # "Untrained" => ret # None /\ ret \in AtRank(rank(arg) - 1)
        /\ arg = "Untrained" => ret = None
    /\ op \in {"increase", "decrease"} =>
        (ret = None <=> <<op, arg>> \in {<<"increase", "GrandMastery">>,
                                          <<"decrease", "Untrained">>})
    /\ op \in {"increase", "decrease"} /\ ret = None =>
        ret \notin Proficency /\ cur = arg

C2_Witness == op = "decrease" /\ arg = "Untrained" /\ ret = None

\* C3: increase_wrapping returns a value of the enum for every argument:
\* the value one rank above, and Untrained for GrandMastery.
C3_IncreaseWrapping ==
    op = "increase_wrapping" =>
        /\ ret # None
        /\ ret \in Proficency
        /\ arg # "GrandMastery" => ret \in AtRank(rank(arg) + 1)
        /\ arg = "GrandMastery" => ret = "Untrained"

C3_Witness ==
    op = "increase_wrapping" /\ arg = "GrandMastery" /\ ret = "Untrained"

\* C4: decrease_wrapping returns a value of the enum for every argument:
\* the value one rank below, and GrandMastery for Untrained.
C4_DecreaseWrapping ==
    op = "decrease_wrapping" =>
        /\ ret # None
        /\ ret \in Proficency
        /\ arg # "Untrained" => ret \in AtRank(rank(arg) - 1)
        /\ arg = "Untrained" => ret = "GrandMastery"

C4_Witness ==
    op = "decrease_wrapping" /\ arg = "Untrained" /\ ret = "GrandMastery"

\* C5 as stated: the values the four functions take or return are six.
C5_SixValues == Cardinality(seen) <= 6

\* C5, amended: the enum has exactly seven values, and every value the
\* four functions take or return is one of them.
C5_SevenValues ==
    /\ Cardinality(Proficency) = 7
    /\ cur \in Proficency
    /\ seen \subseteq Proficency
    /\ Cardinality(seen) <= 7

C5_Witness == Cardinality(seen) = 7 /\ seen = Proficency

\* C6 as stated: six successive applications of increase_wrapping, and of
\* decrease_wrapping, return the starting value.
C6_SixSteps ==
    chain \in {"increase_wrapping", "decrease_wrapping"} /\ n = 6 =>
        cur = start

\* C6, amended: seven successive applications of increase_wrapping, and of
\* decrease_wrapping, return the starting value.
C6_SevenSteps ==
    chain \in {"increase_wrapping", "decrease_wrapping"} /\ n = 7 =>
        cur = start

C6_Witness == chain = "decrease_wrapping" /\ n = 7 /\ cur = start

\* C7: when increase(v) is present, decrease(increase(v)) is present and
\* is v; when decrease(v) is present, increase(decrease(v)) is present and
\* is v.
C7_Inverse ==
    /\ op = "increase" /\ ret # None =>
        decrease(ret) # None /\ decrease(ret) = Some(arg)
    /\ op = "decrease" /\ ret # None =>
        increase(ret) # None /\ increase(ret) = Some(arg)

C7_Witness ==
    op = "decrease" /\ arg = "Expertise" /\ ret # None /\ increase(ret) = arg

\* C8: decrease_wrapping(increase_wrapping(v)) = v and
\* increase_wrapping(decrease_wrapping(v)) = v for every v, and each of the
\* two functions maps the enum onto the enum.
C8_WrappingInverse ==
    /\ op = "increase_wrapping" => decrease_wrapping(ret) = arg
    /\ op = "decrease_wrapping" => increase_wrapping(ret) = arg
    /\ op \in {"increase_wrapping", "decrease_wrapping"} =>
        /\ {increase_wrapping(v) : v \in Proficency} = Proficency
        /\ {decrease_wrapping(v) : v \in Proficency} = Proficency

C8_Witness ==
    op = "increase_wrapping" /\ arg = "GrandMastery"
        /\ decrease_wrapping(ret) = "GrandMastery"

\* C9: the derived comparison agrees with the rank table for every pair:
\* a < b exactly when rank(a) < rank(b), a = b exactly when the ranks are
\* equal, and comparing the other way round gives the opposite answer.
C9_Ordering ==
    op = "cmp" =>
        /\ ret \in {"Less", "Equal", "Greater"}
        /\ ret = "Less" <=> rank(arg) < rank(rhs)
        /\ ret = "Equal" <=> rank(arg) = rank(rhs)
        /\ ret = "Greater" <=> rank(arg) > rank(rhs)
        /\ eq(arg, rhs) <=> rank(arg) = rank(rhs)
        /\ eq(arg, rhs) <=> arg = rhs
        /\ cmp(rhs, arg) = "Less" <=> ret = "Greater"
        /\ cmp(rhs, arg) = "Greater" <=> ret = "Less"

C9_Witness ==
    op = "cmp" /\ arg = "Proficent" /\ rhs = "Expertise" /\ ret = "Less"

\* C10: a default-constructed value is Untrained, of rank 0: decrease on it
\* is None and every other value compares greater than it.
C10_Default ==
    op = "default" =>
        /\ cur = "Untrained"
        /\ rank(cur) = 0
        /\ decrease(cur) = None
        /\ \A v \in Proficency \ {cur} : cmp(v, cur) = "Greater"

C10_Witness == op = "default" /\ cur = "Untrained" /\ decrease(cur) = None

====
